---- MODULE Spec2Model ----
(***************************************************************************)
(* Model of weecfg/extension.py: ExtensionEngine.install_extension,        *)
(* install_from_dir, uninstall_extension, uninstall_files, delete_file,    *)
(* delete_directory and _strip_leading_dir.                                *)
(*                                                                         *)
(* Python strings that the code takes apart (paths, service identifiers,   *)
(* configuration values) are tuples of one-character strings, so that      *)
(* os.path.commonprefix, str.find, str.replace and the `in` operator are   *)
(* computed character by character as the interpreter computes them.       *)
(* Section names, key names and service group names are only ever         *)
(* compared, and are TLA+ strings.                                         *)
(***************************************************************************)
EXTENDS Integers, Sequences, FiniteSets, TLC

VARIABLES files, dirs, config, disk, last, nops

vars == <<files, dirs, config, disk, last, nops>>

(***************************************************************************)
(* Character-level string functions of the Python runtime                  *)
(***************************************************************************)

\* The value of a Python expression that evaluates to None.  It is a tuple
\* whose only element is not a character, so it equals no string.
None == <<"None">>

startswith(s, p) == Len(p) <= Len(s) /\ SubSeq(s, 1, Len(p)) = p

endswith(s, p) == Len(p) <= Len(s) /\ SubSeq(s, Len(s) - Len(p) + 1, Len(s)) = p

\* str.find(c) for a one-character c: 0-based index of the first occurrence, -1 if none
find(s, c) ==
    IF \E i \in 1..Len(s) : s[i] = c
    THEN (CHOOSE i \in 1..Len(s) : s[i] = c /\ \A j \in 1..(i - 1) : s[j] # c) - 1
    ELSE -1

\* str.rfind(c): 0-based index of the last occurrence, -1 if none
rfind(s, c) ==
    IF \E i \in 1..Len(s) : s[i] = c
    THEN (CHOOSE i \in 1..Len(s) : s[i] = c /\ \A j \in (i + 1)..Len(s) : s[j] # c) - 1
    ELSE -1

\* `sub in s` for two strings: substring test
contains(s, sub) ==
    \E i \in 0..(Len(s) - Len(sub)) : SubSeq(s, i + 1, i + Len(sub)) = sub

\* str.replace(old, new): every non-overlapping occurrence, left to right
RECURSIVE replace(_, _, _)
replace(s, old, new) ==
    IF Len(s) < Len(old) THEN s
    ELSE IF SubSeq(s, 1, Len(old)) = old
         THEN new \o replace(SubSeq(s, Len(old) + 1, Len(s)), old, new)
         ELSE <<Head(s)>> \o replace(Tail(s), old, new)

\* str.rstrip('/')
RECURSIVE rstrip_slash(_)
rstrip_slash(s) ==
    IF s # <<>> /\ s[Len(s)] = "/" THEN rstrip_slash(SubSeq(s, 1, Len(s) - 1)) ELSE s

\* str.split('/')
RECURSIVE split_slash(_)
split_slash(s) ==
    LET i == find(s, "/") IN
    IF i < 0 THEN <<s>>
    ELSE <<SubSeq(s, 1, i)>> \o split_slash(SubSeq(s, i + 2, Len(s)))

\* The longest common leading run of characters of two strings
RECURSIVE commonprefix2(_, _)
commonprefix2(a, b) ==
    IF a = <<>> \/ b = <<>> \/ Head(a) # Head(b) THEN <<>>
    ELSE <<Head(a)>> \o commonprefix2(Tail(a), Tail(b))

\* os.path.commonprefix(m): character by character, of a list of strings
RECURSIVE commonprefix(_)
commonprefix(m) ==
    IF m = <<>> THEN <<>>
    ELSE IF Len(m) = 1 THEN m[1]
    ELSE commonprefix2(m[1], commonprefix(Tail(m)))

\* posixpath.join(a, b).  b = None is an AttributeError the caller models.
join(a, b) ==
    IF startswith(b, <<"/">>) THEN b
    ELSE IF a = <<>> \/ endswith(a, <<"/">>) THEN a \o b
    ELSE a \o <<"/">> \o b

\* posixpath.dirname(p)
dirname(p) ==
    LET head == SubSeq(p, 1, rfind(p, "/") + 1) IN
    IF head # <<>> /\ rstrip_slash(head) # <<>> THEN rstrip_slash(head) ELSE head

\* posixpath.basename(p)
basename(p) == SubSeq(p, rfind(p, "/") + 2, Len(p))

\* posixpath.normpath applied to the components of an absolute path:
\* empty and "." components are dropped, ".." removes the component before it
RECURSIVE normcomps(_, _)
normcomps(comps, acc) ==
    IF comps = <<>> THEN acc
    ELSE LET c == Head(comps) IN
         IF c = <<>> \/ c = <<".">> THEN normcomps(Tail(comps), acc)
         ELSE IF c = <<".", ".">>
              THEN normcomps(Tail(comps),
                             IF acc = <<>> THEN acc ELSE SubSeq(acc, 1, Len(acc) - 1))
              ELSE normcomps(Tail(comps), Append(acc, c))

RECURSIVE joincomps(_)
joincomps(comps) ==
    IF comps = <<>> THEN <<>> ELSE <<"/">> \o Head(comps) \o joincomps(Tail(comps))

\* os.path.abspath(p) of an absolute path (every path the code makes absolute
\* is built on a root of root_dict, which is absolute)
abspath(p) ==
    LET comps == normcomps(split_slash(p), <<>>) IN
    IF comps = <<>> THEN <<"/">> ELSE joincomps(comps)

(***************************************************************************)
(* String constants of the program                                         *)
(***************************************************************************)

bin == <<"b","i","n">>  \* "bin"
skins == <<"s","k","i","n","s">>  \* "skins"
install_py == <<"i","n","s","t","a","l","l",".","p","y">>  \* "install.py"
dot_py == <<".","p","y">>  \* ".py"
dot_pyc == <<".","p","y","c">>  \* ".pyc"
dot_pyo == <<".","p","y","o">>  \* ".pyo"
Unknown == <<"U","n","k","n","o","w","n">>  \* "Unknown"
weedb_sqlite == <<"w","e","e","d","b",".","s","q","l","i","t","e">>  \* "weedb.sqlite"
weedb_mysql == <<"w","e","e","d","b",".","m","y","s","q","l">>  \* "weedb.mysql"

\* ExtensionEngine.target_dirs
target_dirs == (bin :> "BIN_ROOT") @@ (skins :> "SKIN_ROOT")

\* The order in which `for directory in ExtensionEngine.target_dirs` visits the
\* keys.  No string shares its first character with both keys, so the outcome of
\* the loop is the same in either order.
target_dirs_keys == <<bin, skins>>

\* self.root_dict, as weecfg.extract_roots derives it: USER_ROOT is BIN_ROOT/user
\* and EXT_ROOT is USER_ROOT/installer
root_dict ==
    [BIN_ROOT |-> <<"/","o","p","t","/","w","e","e","w","x","/","b","i","n">>,
     SKIN_ROOT |-> <<"/","o","p","t","/","w","e","e","w","x","/","s","k","i","n","s">>,
     EXT_ROOT |-> <<"/","o","p","t","/","w","e","e","w","x","/","b","i","n","/",
                    "u","s","e","r","/","i","n","s","t","a","l","l","e","r">>]

\* self.tmpdir: tmpdir or '/var/tmp'
tmpdir == <<"/","v","a","r","/","t","m","p">>

\* weewx.all_service_groups (two of the groups of the enumeration; the loops
\* over it treat every group alike)
all_service_groups == <<"process_services", "report_services">>

\* weecfg.major_comment_block, a list of comment lines
major_comment_block ==
    << [fmt |-> "", arg |-> <<>>],
       [fmt |-> "##############################################################################", arg |-> <<>>],
       [fmt |-> "", arg |-> <<>>] >>

(***************************************************************************)
(* Values                                                                  *)
(***************************************************************************)

str(s) == [kind |-> "str", items |-> <<s>>]

list(l) == [kind |-> "list", items |-> l]

\* The empty tree / fragment
NoConfig == [sect |-> {}, scal |-> <<>>, toporder |-> <<>>, dborder |-> <<>>]

Range(f) == {f[x] : x \in DOMAIN f}

Restrict(f, S) == [x \in S |-> f[x]]

NoInstaller == [absent |-> TRUE]

NoEntry == [prefix |-> <<>>, list |-> <<>>]

(***************************************************************************)
(* Strings of the inputs                                                   *)
(***************************************************************************)

user == <<"u","s","e","r">>  \* "user"
myext == <<"m","y","e","x","t">>  \* "myext"
pmon == <<"p","m","o","n">>  \* "pmon"
newsec == <<"n","e","w","s","e","c">>  \* "newsec"
svc_ext == <<"s","v","c">>  \* "svc"
deep == <<"d","e","e","p">>  \* "deep"
badx == <<"b","a","d","x">>  \* "badx"
half == <<"h","a","l","f">>  \* "half"
etc == <<"e","t","c">>  \* "etc"
nosrc == <<"n","o","s","r","c">>  \* "nosrc"
ghost == <<"g","h","o","s","t">>  \* "ghost"
dbext == <<"d","b","e","x","t">>  \* "dbext"
old == <<"o","l","d">>  \* "old"
gone_py == <<"g","o","n","e",".","p","y">>  \* "gone.py"
old_py == <<"o","l","d",".","p","y">>  \* "old.py"
old_pyc == <<"o","l","d",".","p","y","c">>  \* "old.pyc"
sub == <<"s","u","b">>  \* "sub"
ext_sdb == <<"e","x","t",".","s","d","b">>  \* "ext.sdb"
myext_py == <<"m","y","e","x","t",".","p","y">>  \* "myext.py"
pmon_py == <<"p","m","o","n",".","p","y">>  \* "pmon.py"
pmon_pyc == <<"p","m","o","n",".","p","y","c">>  \* "pmon.pyc"
ok_py == <<"o","k",".","p","y">>  \* "ok.py"
d_py == <<"d",".","p","y">>  \* "d.py"
index_html == <<"i","n","d","e","x",".","h","t","m","l">>  \* "index.html"
extensions_py == <<"e","x","t","e","n","s","i","o","n","s",".","p","y">>  \* "extensions.py"
public_html == <<"p","u","b","l","i","c","_","h","t","m","l">>  \* "public_html"
svc_std == <<"w",".","S","t","d">>  \* "w.Std"
svc_rep == <<"w",".","R","e","p">>  \* "w.Rep"
svc_pmon == <<"u",".","p","m","o","n">>  \* "u.pmon"
svc_pm == <<"u",".","p","m">>  \* "u.pm"
weewxd == <<"w","e","e","w","x","d">>  \* "weewxd"
val == <<"v","a","l">>  \* "val"
other == <<"o","t","h","e","r">>  \* "other"
ext_dir == <<"/","e","x","t">>  \* "/ext", where the extension directories lie

\* p is d or lies below d
Under(p, d) == p = d \/ startswith(p, IF endswith(d, <<"/">>) THEN d ELSE d \o <<"/">>)

\* a/b
sl(a, b) == a \o <<"/">> \o b

(***************************************************************************)
(* The installers (the dictionary an install.py declares) that the model   *)
(* installs.  files is installer['files'], a sequence of source tuples     *)
(* (prefix, list); config is installer['config'] when hasconfig; groups    *)
(* maps every service group the installer has as a key to its value; name  *)
(* is None when the installer has no 'name'.                               *)
(***************************************************************************)

Installer(name, source_tuples, hasconfig, fragment, groups) ==
    [name |-> name, files |-> source_tuples, hasconfig |-> hasconfig,
     config |-> fragment, groups |-> groups]

SourceTuple(prefix, file_list) == [prefix |-> prefix, list |-> file_list]

\* Scenario A of the specification: ("bin/user", ["user/myext.py"])
myext_installer ==
    Installer(myext, <<SourceTuple(sl(bin, user), <<sl(user, myext_py)>>)>>,
              FALSE, NoConfig, <<>>)

\* An extension with a code file, a skin file, a configuration fragment and a
\* service, which it names twice
pmon_config ==
    [sect |-> {<<"ProcessMonitor">>, <<"StdReport">>, <<"StdReport", "pmon">>},
     scal |-> (<<"ProcessMonitor", "process">> :> str(weewxd))
              @@ (<<"StdReport", "pmon", "HTML_ROOT">> :> str(pmon)),
     toporder |-> <<"ProcessMonitor", "StdReport">>,
     dborder |-> <<>>]

pmon_installer ==
    Installer(pmon,
              <<SourceTuple(sl(bin, user), <<sl(sl(bin, user), pmon_py)>>),
                SourceTuple(sl(skins, pmon), <<sl(sl(skins, pmon), index_html)>>)>>,
              TRUE, pmon_config,
              "process_services" :> list(<<svc_pmon, svc_pmon>>))

\* Scenario C of the specification: config = {"NewSection": {"key": "val"}}
newsec_config ==
    [sect |-> {<<"NewSection">>},
     scal |-> (<<"NewSection", "key">> :> str(val)),
     toporder |-> <<"NewSection">>,
     dborder |-> <<>>]

newsec_installer == Installer(newsec, <<>>, TRUE, newsec_config, <<>>)

\* An extension that declares its one service as a string, not as a list
svc_installer ==
    Installer(svc_ext, <<>>, FALSE, NoConfig, "report_services" :> str(svc_pmon))

\* An extension that brings two databases of its own, one for each driver
dbext_config ==
    [sect |-> {<<"Databases">>, <<"Databases", "ext_sqlite">>, <<"Databases", "ext_mysql">>},
     scal |-> (<<"Databases", "ext_sqlite", "driver">> :> str(weedb_sqlite))
              @@ (<<"Databases", "ext_sqlite", "database_name">> :> str(ext_sdb))
              @@ (<<"Databases", "ext_mysql", "driver">> :> str(weedb_mysql))
              @@ (<<"Databases", "ext_mysql", "database_name">> :> str(<<"e","x","t","d","b">>)),
     toporder |-> <<"Databases">>,
     dborder |-> <<"ext_sqlite", "ext_mysql">>]

dbext_installer == Installer(dbext, <<>>, TRUE, dbext_config, <<>>)

\* An extension that was installed before the engine is constructed
old_installer ==
    Installer(old,
              <<SourceTuple(sl(bin, user), <<sl(sl(bin, user), gone_py), sl(sl(bin, user), old_py)>>),
                SourceTuple(sl(skins, old), <<sl(sl(skins, old), sub),
                                              sl(sl(skins, old), index_html)>>)>>,
              FALSE, NoConfig, <<>>)

\* An extension whose code file goes into a directory of its own
deep_installer ==
    Installer(deep, <<SourceTuple(sl(bin, user), <<sl(sl(sl(bin, user), deep), d_py)>>)>>,
              FALSE, NoConfig, <<>>)

\* An extension whose second source tuple has a prefix that is no target
\* directory but starts like one ("bar/x" starts with the b of "bin")
badx_installer ==
    Installer(badx,
              <<SourceTuple(sl(bin, user), <<sl(sl(bin, user), ok_py)>>),
                SourceTuple(sl(<<"b","a","r">>, <<"x">>), <<sl(<<"b","a","r">>, <<"f">>)>>)>>,
              FALSE, NoConfig, <<>>)

\* An extension whose second source tuple has a prefix that has nothing in
\* common with a target directory
half_installer ==
    Installer(half,
              <<SourceTuple(sl(bin, user), <<sl(sl(bin, user), ok_py)>>),
                SourceTuple(etc, <<sl(etc, <<"f">>)>>)>>,
              FALSE, NoConfig, <<>>)

\* An extension whose source tuple has a prefix that has nothing in common
\* with a target directory
etc_installer ==
    Installer(etc, <<SourceTuple(etc, <<sl(etc, <<"f">>)>>)>>, FALSE, NoConfig, <<>>)

\* An extension whose installer lists a file that the directory lacks
nosrc_installer ==
    Installer(nosrc, <<SourceTuple(sl(bin, user), <<sl(sl(bin, user), ok_py)>>)>>,
              FALSE, NoConfig, <<>>)

(***************************************************************************)
(* What install_extension is pointed at: a directory (kind "dir") with the *)
(* files members, an archive (kind "archive") with the member names        *)
(* members, of which memberdirs are directories, or nothing ("missing").   *)
(***************************************************************************)

Directory(name, installer, members) ==
    [kind |-> "dir", path |-> sl(ext_dir, name), installer |-> installer,
     members |-> members, memberdirs |-> {}, readable |-> TRUE]

DirPackages ==
    { Directory(myext, myext_installer, <<install_py, sl(user, myext_py)>>),
      Directory(pmon, pmon_installer,
                <<install_py, sl(sl(bin, user), pmon_py), sl(sl(skins, pmon), index_html)>>),
      Directory(newsec, newsec_installer, <<install_py>>),
      Directory(svc_ext, svc_installer, <<install_py>>),
      Directory(dbext, dbext_installer, <<install_py>>),
      Directory(deep, deep_installer, <<install_py, sl(sl(sl(bin, user), deep), d_py)>>),
      Directory(badx, badx_installer,
                <<install_py, sl(sl(bin, user), ok_py), sl(<<"b","a","r">>, <<"f">>)>>),
      Directory(half, half_installer,
                <<install_py, sl(sl(bin, user), ok_py), sl(etc, <<"f">>)>>),
      Directory(etc, etc_installer, <<install_py, sl(etc, <<"f">>)>>),
      Directory(nosrc, nosrc_installer, <<install_py>>) }

\* The source-prefixes of the prefix classification
Prefixes ==
    << bin, sl(bin, user), <<"b","i","n","a","r","y">>, skins, sl(skins, pmon),
       <<"s","k","i","n">>, sl(<<"b","a","r">>, <<"x">>), sl(<<"s","b","i","n">>, <<"x">>),
       <<"b">>, etc >>

Digits == <<"0", "1", "2", "3", "4", "5", "6", "7", "8", "9">>

\* For the i-th prefix, an extension with one source tuple of one file, in
\* the directory /ext/p<i-1>
PrefixPackage(i) ==
    [kind |-> "dir", path |-> sl(ext_dir, <<"p", Digits[i]>>),
     installer |-> Installer(<<"p">>, <<SourceTuple(Prefixes[i], <<sl(<<"d">>, d_py)>>)>>,
                             FALSE, NoConfig, <<>>),
     members |-> <<install_py, sl(<<"d">>, d_py)>>, memberdirs |-> {}, readable |-> TRUE]

PrefixPackages == {PrefixPackage(i) : i \in DOMAIN Prefixes}

Archive(name, installer, members, memberdirs, readable) ==
    [kind |-> "archive", path |-> sl(<<"/","d","l">>, name), installer |-> installer,
     members |-> members, memberdirs |-> memberdirs, readable |-> readable]

ArchivePackages ==
    { \* pmon/ with an entry for the directory itself
      Archive(<<"1">>, pmon_installer,
              <<pmon, sl(pmon, install_py), sl(pmon, sl(sl(bin, user), pmon_py)),
                sl(pmon, sl(sl(skins, pmon), index_html))>>, {pmon}, TRUE),
      \* the same without the entry for the directory
      Archive(<<"2">>, pmon_installer,
              <<sl(pmon, install_py), sl(pmon, sl(sl(bin, user), pmon_py)),
                sl(pmon, sl(sl(skins, pmon), index_html))>>, {}, TRUE),
      \* pmon/install.py and pmon/index.html
      Archive(<<"3">>, newsec_installer,
              <<sl(pmon, install_py), sl(pmon, index_html)>>, {}, TRUE),
      \* an extension that is its install.py alone
      Archive(<<"4">>, newsec_installer, <<sl(newsec, install_py)>>, {}, TRUE),
      \* two top-level directories that start with different characters
      Archive(<<"5">>, newsec_installer,
              <<sl(<<"a">>, install_py), sl(<<"b">>, <<"y">>)>>, {}, TRUE),
      \* two top-level directories that start with the same characters
      Archive(<<"6">>, newsec_installer,
              <<sl(<<"a","b","c">>, install_py), sl(<<"a","b","d">>, <<"y">>)>>, {}, TRUE),
      \* a file that is no archive
      Archive(<<"7">>, NoInstaller, <<>>, {}, FALSE),
      \* installers whose install ends early
      Archive(<<"8">>, etc_installer, <<etc, sl(etc, install_py), sl(etc, sl(etc, <<"f">>))>>,
              {etc}, TRUE),
      Archive(<<"9">>, nosrc_installer, <<nosrc, sl(nosrc, install_py)>>, {nosrc}, TRUE) }

\* The names uninstall_extension is called with
ExtensionNames == {myext, pmon, newsec, svc_ext, dbext, deep, old, ghost}

\* The content of a file of the package pkg: its install.py declares the installer
content(pkg, name) ==
    [data |-> pkg.path,
     installer |-> IF basename(name) = install_py THEN pkg.installer ELSE NoInstaller]

\* The files of the extension directories handed to install_extension
SourceTree ==
    LET trees == DirPackages \cup PrefixPackages
        paths == UNION {{join(pkg.path, pkg.members[i]) : i \in DOMAIN pkg.members} : pkg \in trees}
    IN  [p \in paths |->
            LET pkg == CHOOSE q \in trees : Under(p, q.path)
            IN  content(pkg, p)]

(***************************************************************************)
(* The file system: files maps the path of every regular file to its       *)
(* content, dirs is the set of directories.  The content of a file is a    *)
(* record; the content of an install.py is the installer it declares.      *)
(***************************************************************************)

exists(st, p) == p \in DOMAIN st.files \/ p \in st.dirs

\* os.path.isfile(p) and the content read from p
isfile(st, p) == abspath(p) \in DOMAIN st.files

readfile(st, p) == st.files[abspath(p)]

\* os.makedirs(name): creates the missing ancestors top-down, then name itself;
\* raises OSError when name exists or an ancestor is not a directory.  What was
\* created before the error stays.
RECURSIVE makedirs(_, _)
makedirs(st, name) ==
    LET head == dirname(name)
        \* the ancestors made if they could be
        mkdir(up) ==
            IF up.raised THEN up
            ELSE IF name \notin up.dirs /\ name \notin DOMAIN st.files /\ head \in up.dirs
                 THEN [dirs |-> up.dirs \cup {name}, raised |-> FALSE]
                 ELSE [dirs |-> up.dirs, raised |-> TRUE]
    IN  mkdir(IF head # <<>> /\ basename(name) # <<>> /\ ~exists(st, head)
              THEN makedirs(st, head)
              ELSE [dirs |-> st.dirs, raised |-> FALSE])

\* shutil.copy / shutil.copy2 (src, dst): into dst when dst is a directory;
\* IOError when src is no regular file or the destination cannot be opened
copy_target(st, src, dst) == IF dst \in st.dirs THEN join(dst, basename(src)) ELSE dst

copy_fails(st, src, dst) ==
    \/ ~isfile(st, src)
    \/ copy_target(st, src, dst) \in st.dirs
    \/ dirname(copy_target(st, src, dst)) \notin st.dirs

copy_result(st, src, dst) ==
    LET t == copy_target(st, src, dst) IN
    [p \in (DOMAIN st.files) \cup {t} |-> IF p = t THEN readfile(st, src) ELSE st.files[p]]

\* shutil.rmtree(path): everything at and below path
rmtree_files(st, path) ==
    [p \in {q \in DOMAIN st.files : ~Under(q, path)} |-> st.files[p]]

rmtree_dirs(st, path) == {d \in st.dirs : ~Under(d, path)}

\* os.listdir(directory) is non-empty
listdir_nonempty(st, directory) ==
    \E p \in (DOMAIN st.files) \cup st.dirs : p # directory /\ Under(p, directory)

(***************************************************************************)
(* The configuration tree (a ConfigObj).  A key path is the sequence of    *)
(* section names down to a key.  sect is the set of paths of sections,     *)
(* scal maps the path of every scalar to its value, comments maps every    *)
(* top-level key to its comment lines.  A value is [kind, items]: a list   *)
(* of strings (kind "list") or one string (kind "str", items of length 1). *)
(* A fragment (the plain dict an installer declares) has sect, scal and    *)
(* the order in which its top-level keys and its databases are visited.    *)
(***************************************************************************)

\* `k in a_dict` for a key path
haskey(c, p) == p \in c.sect \/ p \in DOMAIN c.scal

\* The top-level keys of a tree
toplevel(c) == {p[1] : p \in {q \in c.sect \cup DOMAIN c.scal : Len(q) = 1}}

ProperPrefixes(p) == {SubSeq(p, 1, n) : n \in 1..(Len(p) - 1)}

\* weecfg.conditional_merge(a_dict, b_dict): a section of b_dict that a_dict
\* lacks is created, a scalar of b_dict whose key a_dict lacks is copied; a
\* key a_dict has keeps its value, and nothing is put below a scalar of a_dict.
conditional_merge(a, b) ==
    LET below_scalar(p) == \E q \in ProperPrefixes(p) : q \in DOMAIN a.scal
        newsect == {p \in b.sect : ~haskey(a, p) /\ ~below_scalar(p)}
        newscal == {p \in DOMAIN b.scal : ~haskey(a, p) /\ ~below_scalar(p)}
        newtop == {p[1] : p \in {q \in newsect \cup newscal : Len(q) = 1}}
    IN  [sect |-> a.sect \cup newsect,
         scal |-> [p \in (DOMAIN a.scal) \cup newscal |->
                      IF p \in DOMAIN a.scal THEN a.scal[p] ELSE b.scal[p]],
         comments |-> [k \in (DOMAIN a.comments) \cup newtop |->
                      IF k \in DOMAIN a.comments THEN a.comments[k] ELSE <<>>]]

\* One pass of pruning: the sections named by b that have nothing left in them
prune_once(a, b) ==
    LET empty == {p \in a.sect \cap b.sect :
                    ~\E q \in a.sect \cup DOMAIN a.scal : p \in ProperPrefixes(q)}
    IN  [a EXCEPT !.sect = a.sect \ empty]

RECURSIVE prune(_, _, _)
prune(a, b, n) == IF n = 0 THEN a ELSE prune(prune_once(a, b), b, n - 1)

\* The depth of the deepest key path of a fragment
depth(b) ==
    LET ls == {Len(p) : p \in b.sect \cup DOMAIN b.scal} IN
    IF ls = {} THEN 0 ELSE CHOOSE n \in ls : \A m \in ls : m <= n

\* weecfg.remove_and_prune(a_dict, b_dict): the scalars of a_dict that b_dict
\* names are removed, then every section b_dict names that is left empty, the
\* innermost first; a removed top-level key loses its comment.
remove_and_prune(a, b) ==
    LET gone == {p \in DOMAIN a.scal : p \in DOMAIN b.scal}
        a1 == [a EXCEPT !.scal = Restrict(a.scal, (DOMAIN a.scal) \ gone)]
        a2 == prune(a1, b, depth(b))
    IN  [a2 EXCEPT !.comments = Restrict(a.comments, (DOMAIN a.comments) \cap toplevel(a2))]

\* weecfg.prepend_path(a_dict, label, value): every scalar whose key is label,
\* at any depth, becomes os.path.join(value, old value)
prepend_path(b, label, value) ==
    [b EXCEPT !.scal = [p \in DOMAIN b.scal |->
        IF p[Len(p)] = label /\ b.scal[p].kind = "str"
        THEN str(join(value, b.scal[p].items[1]))
        ELSE b.scal[p]]]

\* weeutil.weeutil.option_as_list(option): a list as it is, a string as a
\* list of that one string
option_as_list(option) == option.items

(***************************************************************************)
(* The run of one operation.  Every handler is a function of the record    *)
(* st: the file system (files, dirs), the live configuration tree          *)
(* (config), the configuration file and its backup (disk), and what the    *)
(* run did so far.  outcome is "run" while the handler is executing, "ok"  *)
(* once it returned, and otherwise the name of the exception that left it. *)
(***************************************************************************)

\* The state in which a handler starts on the system state s
Begin(s) ==
    [files |-> s.files, dirs |-> s.dirs, config |-> s.config, disk |-> s.disk,
     log |-> <<>>, outcome |-> "run",
     exitmsg |-> [msg |-> "", entry |-> NoEntry, name |-> <<>>],
     N |-> -1, copies |-> <<>>, deletes |-> <<>>, saved |-> FALSE,
     save_config |-> FALSE, entered |-> FALSE, extension_dir |-> None,
     installer |-> NoInstaller, cfg |-> NoConfig, cleanup |-> "none", ret |-> 0,
     rets |-> <<>>, member_names |-> <<>>]

\* self.logger.log(msg % args, level)
Log(st, msg, paths, keys, n, level) ==
    [st EXCEPT !.log = Append(@, [msg |-> msg, paths |-> paths, keys |-> keys,
                                  n |-> n, level |-> level])]

\* An exception leaves the handler
Raise(st, exc) == [st EXCEPT !.outcome = exc]

\* sys.exit(msg)
Exit(st, msg, entry, name) ==
    [st EXCEPT !.outcome = "SystemExit",
               !.exitmsg = [msg |-> msg, entry |-> entry, name |-> name]]

\* _strip_leading_dir cutting at the last slash instead of the first
strip_all_dirs(path) ==
    LET idx == rfind(path, "/") IN
    IF idx >= 0 THEN SubSeq(path, idx + 2, Len(path)) ELSE None

\* ExtensionEngine._strip_leading_dir(path): the function returns nothing,
\* that is None, for a path without a slash
_strip_leading_dir(path) ==
    LET idx == find(path, "/") IN
    IF idx >= 0 THEN SubSeq(path, idx + 2, Len(path)) ELSE None

\* The for/else over target_dirs that install_from_dir and uninstall_files
\* share: the root_type of the first directory that has a character in common
\* with the start of the prefix ("root"), a KeyError when that common prefix
\* is no key of target_dirs, the else branch ("exit") when no directory matches
RECURSIVE classify(_, _)
classify(prefix, keys) ==
    IF keys = <<>> THEN [kind |-> "exit", root_type |-> ""]
    ELSE LET source_type == commonprefix(<<prefix, Head(keys)>>) IN
         IF source_type # <<>>
         THEN IF source_type \in DOMAIN target_dirs
              THEN [kind |-> "root", root_type |-> target_dirs[source_type]]
              ELSE [kind |-> "KeyError", root_type |-> ""]
         ELSE classify(prefix, Tail(keys))

\* weecfg.get_extension_installer(extension_dir): the path of the install.py
\* in the directory and the installer it declares; ExtensionError without one
get_extension_installer(st, extension_dir) ==
    LET loaded(installer_path, installer) ==
            [ok |-> installer # NoInstaller, installer_path |-> installer_path,
             installer |-> installer]
        located(installer_path) ==
            loaded(installer_path,
                   IF isfile(st, installer_path) THEN readfile(st, installer_path).installer
                   ELSE NoInstaller)
    IN  located(join(extension_dir, install_py))

\* weecfg.save_with_backup(config_dict, config_path): the file as it was
\* becomes the backup, the tree is written to the file
save_with_backup(st) ==
    [st EXCEPT !.disk = [conf |-> st.config, backup |-> st.disk.conf, backups |-> TRUE],
               !.saved = TRUE]

(***************************************************************************)
(* enumerate_extensions, lines 71-84                                       *)
(***************************************************************************)

\* os.listdir(directory): the names of what is in it
listdir(st, directory) ==
    {basename(p) : p \in {q \in (DOMAIN st.files) \cup st.dirs :
                             q # directory /\ dirname(q) = directory}}

\* The orders in which os.listdir may return the names
listings(names) ==
    {order \in [1..Cardinality(names) -> names] :
        \A i, j \in 1..Cardinality(names) : order[i] = order[j] => i = j}

\* The loop of lines 77-78
RECURSIVE log_names(_, _)
log_names(st, exts) ==
    IF exts = <<>> THEN st
    ELSE log_names(Log(st, "%s", <<Head(exts)>>, <<>>, 0, 0), Tail(exts))

\* ExtensionEngine.enumerate_extensions(); exts is what os.listdir returns
\* when the cache directory is there
enumerate_extensions(st, exts) ==
    LET ext_root == root_dict.EXT_ROOT
        none(st1) == Log(st1, "No extensions installed", <<>>, <<>>, 0, 0)
        listed(st1) == [st1 EXCEPT !.outcome = "ok"]
    IN  listed(IF ext_root \notin st.dirs
               THEN none(Log(st, "No extension cache '%s'", <<ext_root>>, <<>>, 0, 2))
               ELSE IF exts # <<>> THEN log_names(st, exts)
               ELSE none(Log(st, "Extension cache is '%s'", <<ext_root>>, <<>>, 0, 2)))

(***************************************************************************)
(* install_from_dir, lines 129-157: the copy of the files                  *)
(***************************************************************************)

\* One pass of the loop over source_tuple[1], lines 140-153
copy_file(st, root_type, extension_dir, install_file, dry_run) ==
    LET source_path == join(extension_dir, install_file)
        dst_file == _strip_leading_dir(install_file)
        destination_path == abspath(join(root_dict[root_type], dst_file))
        \* lines 150-153, the directory made if it could be
        copy(made) ==
            IF copy_fails(made, source_path, destination_path)
            THEN Raise(made, "IOError")
            ELSE [made EXCEPT
                    !.files = copy_result(made, source_path, destination_path),
                    !.copies = Append(@, [src |-> source_path, dst |-> destination_path]),
                    !.N = @ + 1]
        \* lines 147-153
        logged(st1) ==
            IF dry_run THEN st1
            ELSE copy([st1 EXCEPT !.dirs = makedirs(st1, dirname(destination_path)).dirs])
    IN  IF dst_file = None THEN Raise(st, "AttributeError")
        ELSE logged(Log(st, "Copying from '%s' to '%s'",
                        <<source_path, destination_path>>, <<>>, 0, 3))

RECURSIVE copy_files(_, _, _, _, _)
copy_files(st, root_type, extension_dir, file_list, dry_run) ==
    IF file_list = <<>> \/ st.outcome # "run" THEN st
    ELSE copy_files(copy_file(st, root_type, extension_dir, Head(file_list), dry_run),
                    root_type, extension_dir, Tail(file_list), dry_run)

\* The loop over installer['files'], lines 129-156
RECURSIVE copy_source_tuples(_, _, _, _)
copy_source_tuples(st, extension_dir, source_tuples, dry_run) ==
    IF source_tuples = <<>> \/ st.outcome # "run" THEN st
    ELSE LET source_tuple == Head(source_tuples)
             c == classify(source_tuple.prefix, target_dirs_keys)
         IN  IF c.kind = "exit"
             THEN Exit(st, "Unknown destination for file %s", source_tuple, <<>>)
             ELSE IF c.kind = "KeyError" THEN Raise(st, "KeyError")
             ELSE copy_source_tuples(
                      copy_files(st, c.root_type, extension_dir, source_tuple.list, dry_run),
                      extension_dir, Tail(source_tuples), dry_run)

(***************************************************************************)
(* install_from_dir, lines 159-210: the configuration fragment             *)
(***************************************************************************)

\* d[k] = v on a dict of the fragment
setitem(b, p, v) ==
    [b EXCEPT !.scal = [q \in (DOMAIN b.scal) \cup {p} |-> IF q = p THEN v ELSE b.scal[q]]]

\* A section of the live tree is true when it has an entry
truthy(c, p) == p \in c.sect /\ \E q \in c.sect \cup DOMAIN c.scal : p \in ProperPrefixes(q)

\* The loop over cfg['Databases'], lines 179-187, as far as it gets: the first
\* lookup that fails ends it (the bare except of line 188), and what it had
\* assigned by then stays assigned.
RECURSIVE massage_databases(_, _, _)
massage_databases(cfg, live, order) ==
    IF order = <<>> THEN cfg
    ELSE LET db == <<"Databases", Head(order)>>
             sqlitecfg == <<"Databases", "archive_sqlite">>
             mysqlcfg == <<"Databases", "archive_mysql">>
             has(c, sec, k) == Append(sec, k) \in DOMAIN c.scal
             get(c, sec, k) == c.scal[Append(sec, k)]
         IN  IF db \notin cfg.sect \/ ~has(cfg, db, "driver") THEN cfg
             ELSE IF get(cfg, db, "driver") = str(weedb_sqlite) /\ truthy(live, sqlitecfg)
             THEN IF ~has(live, sqlitecfg, "database_name") \/ ~has(cfg, db, "database_name")
                  THEN cfg
                  ELSE LET named == setitem(cfg, Append(db, "database_name"),
                                      str(join(dirname(get(live, sqlitecfg, "database_name").items[1]),
                                               get(cfg, db, "database_name").items[1])))
                       IN  IF ~has(live, sqlitecfg, "root") THEN named
                           ELSE massage_databases(
                                    setitem(named, Append(db, "root"), get(live, sqlitecfg, "root")),
                                    live, Tail(order))
             ELSE IF get(cfg, db, "driver") = str(weedb_mysql) /\ truthy(live, mysqlcfg)
             THEN IF ~has(live, mysqlcfg, "host") THEN cfg
                  ELSE LET hosted == setitem(cfg, Append(db, "host"), get(live, mysqlcfg, "host"))
                       IN  IF ~has(live, mysqlcfg, "user") THEN hosted
                           ELSE LET usered == setitem(hosted, Append(db, "user"),
                                                      get(live, mysqlcfg, "user"))
                                IN  IF ~has(live, mysqlcfg, "password") THEN usered
                                    ELSE massage_databases(
                                             setitem(usered, Append(db, "password"),
                                                     get(live, mysqlcfg, "password")),
                                             live, Tail(order))
             ELSE massage_databases(cfg, live, Tail(order))

\* Lines 174-189: the try block around the loop
massage(cfg, live) ==
    IF <<"Databases">> \notin live.sect \/ <<"Databases">> \notin cfg.sect THEN cfg
    ELSE massage_databases(cfg, live, cfg.dborder)

\* new_top_levels with the test of line 194 left out: every top-level key of
\* cfg counts as new
RECURSIVE new_top_levels_all(_, _)
new_top_levels_all(order, live) ==
    IF order = <<>> THEN <<>>
    ELSE <<Head(order)>> \o new_top_levels_all(Tail(order), live)

\* Lines 193-196: the top-level keys of cfg that the live tree lacks, in the
\* order the loop meets them
RECURSIVE new_top_levels(_, _)
new_top_levels(order, live) ==
    IF order = <<>> THEN <<>>
    ELSE IF haskey(live, <<Head(order)>>) THEN new_top_levels(Tail(order), live)
    ELSE <<Head(order)>> \o new_top_levels(Tail(order), live)

RECURSIVE log_sections(_, _)
log_sections(st, sections) ==
    IF sections = <<>> THEN st
    ELSE log_sections(Log(st, "Adding section %s", <<>>, <<Head(sections)>>, 0, 3),
                      Tail(sections))

\* Lines 162-210
merge_config(st, installer, extension_name, dry_run) ==
    LET \* lines 166-189: cfg = dict(installer['config']), prepended and massaged
        massaged == massage(prepend_path(installer.config, "HTML_ROOT",
                                st.config.scal[<<"StdReport", "HTML_ROOT">>].items[1]),
                            st.config)
        \* dict() copies the top level only: the nested dicts of cfg are
        \* those of the installer, and change with them
        shared(cfg) == [cfg EXCEPT !.scal = [p \in DOMAIN cfg.scal |->
                           IF Len(p) = 1 THEN installer.config.scal[p] ELSE cfg.scal[p]]]
        \* lines 201-208
        commented(merged, new_top_level) ==
            [merged EXCEPT !.comments =
                [k \in (DOMAIN merged.comments) \cup Range(new_top_level) |->
                    IF k \in Range(new_top_level)
                    THEN major_comment_block \o
                         <<[fmt |-> "# Options for extension '%s'", arg |-> extension_name]>>
                    ELSE merged.comments[k]]]
        \* lines 198-210
        merge(st2, cfg, new_top_level) ==
            Log(IF dry_run THEN st2
                ELSE [st2 EXCEPT
                        !.config = commented(conditional_merge(st.config, cfg), new_top_level),
                        !.save_config = TRUE],
                "Merged extension settings into configuration file", <<>>, <<>>, 0, 3)
        \* lines 191-210
        add(st1, cfg, new_top_level) ==
            merge(log_sections([st1 EXCEPT !.cfg = cfg,
                                   !.installer = [installer EXCEPT !.config = shared(cfg)]],
                               new_top_level),
                  cfg, new_top_level)
        prepared(st1, cfg) == add(st1, cfg, new_top_levels(cfg.toporder, st.config))
        logged(st1) ==
            IF <<"StdReport", "HTML_ROOT">> \notin DOMAIN st.config.scal
            THEN Raise(st1, "KeyError")
            ELSE prepared(st1, massaged)
    IN  IF st.outcome # "run" \/ ~installer.hasconfig THEN st
        ELSE logged(Log(st, "Adding sections to configuration file", <<>>, <<>>, 0, 2))

(***************************************************************************)
(* install_from_dir, lines 212-248: services, installer file, save         *)
(***************************************************************************)

\* add_svcs with the test of line 222 left out: every declared service is
\* appended
RECURSIVE add_svcs_always(_, _, _, _, _)
add_svcs_always(st, service_group, extension_svcs, svc_list, dry_run) ==
    LET svc == Head(extension_svcs)
        append(appended) ==
            add_svcs_always(Log(IF dry_run THEN st
                                ELSE [st EXCEPT
                                        !.config.scal[<<"Engine", "Services", service_group>>] =
                                            list(appended),
                                        !.save_config = TRUE],
                                "Added new service %s to %s", <<svc>>, <<service_group>>, 0, 3),
                            service_group, Tail(extension_svcs), appended, dry_run)
    IN  IF extension_svcs = <<>> THEN st
        ELSE append(IF dry_run THEN svc_list ELSE Append(svc_list, svc))

\* The loop over extension_svcs, lines 220-230; svc_list is the local list
RECURSIVE add_svcs(_, _, _, _, _)
add_svcs(st, service_group, extension_svcs, svc_list, dry_run) ==
    LET svc == Head(extension_svcs)
        \* lines 225-230
        append(appended) ==
            add_svcs(Log(IF dry_run THEN st
                         ELSE [st EXCEPT
                                 !.config.scal[<<"Engine", "Services", service_group>>] =
                                     list(appended),
                                 !.save_config = TRUE],
                         "Added new service %s to %s", <<svc>>, <<service_group>>, 0, 3),
                     service_group, Tail(extension_svcs), appended, dry_run)
    IN  IF extension_svcs = <<>> THEN st
        ELSE IF svc \in Range(svc_list)
             THEN add_svcs(st, service_group, Tail(extension_svcs), svc_list, dry_run)
             ELSE append(IF dry_run THEN svc_list ELSE Append(svc_list, svc))

\* The loop over all_service_groups, lines 215-230
RECURSIVE add_services(_, _, _, _)
add_services(st, installer, service_groups, dry_run) ==
    IF service_groups = <<>> \/ st.outcome # "run" THEN st
    ELSE LET service_group == Head(service_groups) IN
         IF service_group \notin DOMAIN installer.groups
         THEN add_services(st, installer, Tail(service_groups), dry_run)
         ELSE IF <<"Engine", "Services", service_group>> \notin DOMAIN st.config.scal
         THEN Raise(st, "KeyError")
         ELSE add_services(
                  add_svcs(st, service_group, option_as_list(installer.groups[service_group]),
                           option_as_list(st.config.scal[<<"Engine", "Services", service_group>>]),
                           dry_run),
                  installer, Tail(service_groups), dry_run)

\* save_installer without the try/except of lines 238-241: the OSError of
\* os.makedirs for a directory that exists leaves the function
save_installer_strict(st, installer_path, extension_name, dry_run) ==
    LET extension_installer_dir == join(root_dict.EXT_ROOT, extension_name)
        copy(made) ==
            IF copy_fails(made, installer_path, extension_installer_dir)
            THEN Raise(made, "IOError")
            ELSE [made EXCEPT !.files =
                     copy_result(made, installer_path, extension_installer_dir)]
        logged(st1) ==
            IF dry_run THEN st1
            ELSE IF makedirs(st1, extension_installer_dir).raised THEN Raise(st1, "OSError")
            ELSE copy([st1 EXCEPT !.dirs = makedirs(st1, extension_installer_dir).dirs])
    IN  IF st.outcome # "run" THEN st
        ELSE logged(Log(st, "Saving installer file to %s", <<extension_installer_dir>>,
                        <<>>, 0, 0))

\* Lines 232-242
save_installer(st, installer_path, extension_name, dry_run) ==
    LET extension_installer_dir == join(root_dict.EXT_ROOT, extension_name)
        \* line 242, the directory made if it could be
        copy(made) ==
            IF copy_fails(made, installer_path, extension_installer_dir)
            THEN Raise(made, "IOError")
            ELSE [made EXCEPT !.files =
                     copy_result(made, installer_path, extension_installer_dir)]
        \* lines 236-242
        logged(st1) ==
            IF dry_run THEN st1
            ELSE copy([st1 EXCEPT !.dirs = makedirs(st1, extension_installer_dir).dirs])
    IN  IF st.outcome # "run" THEN st
        ELSE logged(Log(st, "Saving installer file to %s", <<extension_installer_dir>>,
                        <<>>, 0, 0))

\* save_if_changed with the test of line 244 left out: every install that
\* gets to the end saves
save_always(st) ==
    IF st.outcome # "run" THEN st
    ELSE Log(save_with_backup(st), "Saved configuration dictionary. Backup copy at %s",
             <<>>, <<>>, 0, 0)

\* Lines 244-248
save_if_changed(st) ==
    IF st.outcome # "run" \/ ~st.save_config THEN st
    ELSE Log(save_with_backup(st), "Saved configuration dictionary. Backup copy at %s",
             <<>>, <<>>, 0, 0)

\* ExtensionEngine.install_from_dir(extension_dir)
install_from_dir(st0, extension_dir, dry_run) ==
    LET \* lines 127-157
        copied(st) ==
            IF st.outcome # "run" THEN st
            ELSE Log(st, "Copied %d files", <<>>, <<>>, st.N, 2)
        \* lines 212-230
        services(st, installer) ==
            IF st.outcome # "run" THEN st
            ELSE add_services(Log(st, "Adding services to service lists", <<>>, <<>>, 0, 2),
                              installer, all_service_groups, dry_run)
        \* lines 119-248; extension_name is installer.get('name', 'Unknown')
        install(st, installer, installer_path, extension_name) ==
            save_if_changed(
              save_installer(
                services(
                  merge_config(
                    copied(
                      copy_source_tuples(
                        Log([Log([st EXCEPT !.installer = installer],
                                 "Found extension with name '%s'", <<extension_name>>,
                                 <<>>, 0, 2)
                               EXCEPT !.N = 0],
                            "Copying new files", <<>>, <<>>, 0, 2),
                        extension_dir, installer.files, dry_run)),
                    installer, extension_name, dry_run),
                  installer),
                installer_path, extension_name, dry_run))
        \* line 118
        found(st, got) ==
            IF ~got.ok THEN Raise(st, "ExtensionError")
            ELSE install(st, got.installer, got.installer_path,
                         IF got.installer.name = None THEN Unknown ELSE got.installer.name)
        logged(st) == found(st, get_extension_installer(st, extension_dir))
    IN  logged(Log([st0 EXCEPT !.entered = TRUE],
                   "Request to install extension found in directory %s",
                   <<extension_dir>>, <<>>, 0, 2))

(***************************************************************************)
(* install_extension, lines 86-108                                         *)
(***************************************************************************)

\* weecfg.extract_tarball(extension_path, self.tmpdir, self.logger): every
\* member of the archive is written below tmpdir, and the member names are
\* returned
RECURSIVE extract_members(_, _, _)
extract_members(st, pkg, names) ==
    LET name == Head(names)
        target == abspath(join(tmpdir, name))
        write(made) ==
            [made EXCEPT !.files =
                [p \in (DOMAIN made.files) \cup {target} |->
                    IF p = target THEN content(pkg, name) ELSE made.files[p]]]
    IN  IF names = <<>> THEN st
        ELSE extract_members(
                 IF name \in pkg.memberdirs
                 THEN [st EXCEPT !.dirs = makedirs(st, target).dirs]
                 ELSE write([st EXCEPT !.dirs = makedirs(st, dirname(target)).dirs]),
                 pkg, Tail(names))

extract_tarball(st, pkg) ==
    IF pkg.readable
    THEN [extract_members(st, pkg, pkg.members) EXCEPT !.member_names = pkg.members]
    ELSE Raise(st, "ExtractError")

\* The finally clause, line 100: shutil.rmtree(extension_dir, ignore_errors=True).
\* extension_dir is a local variable that line 97 binds; when the try block
\* was left before line 97, reading it raises UnboundLocalError, which
\* replaces the exception that was on its way.
finally(st) ==
    IF st.extension_dir = None
    THEN [st EXCEPT !.outcome = "UnboundLocalError", !.cleanup = "raised"]
    ELSE IF abspath(st.extension_dir) \in st.dirs
         THEN [st EXCEPT !.files = rmtree_files(st, abspath(st.extension_dir)),
                         !.dirs = rmtree_dirs(st, abspath(st.extension_dir)),
                         !.cleanup = "done"]
         ELSE [st EXCEPT !.cleanup = "done"]

\* Line 108, reached when nothing was raised
finished_installing(st, extension_path) ==
    IF st.outcome # "run" THEN st
    ELSE [Log(st, "Finished installing extension '%s'", <<extension_path>>, <<>>, 0, 0)
             EXCEPT !.outcome = "ok"]

\* ExtensionEngine.install_extension(extension_path); pkg is what is found
\* at extension_path: an archive file, a directory, or nothing
install_extension(st0, pkg, dry_run) ==
    LET \* lines 94-98
        extracted(st, extension_reldir, extension_dir) ==
            IF st.outcome # "run" THEN finally(st)
            ELSE IF extension_reldir = <<>> THEN finally(Raise(st, "InstallError"))
            ELSE finished_installing(
                     finally(install_from_dir([st EXCEPT !.extension_dir = extension_dir],
                                              extension_dir, dry_run)),
                     pkg.path)
        \* line 93
        archive(st) ==
            extracted(st, commonprefix(st.member_names),
                      join(tmpdir, commonprefix(st.member_names)))
        logged(st) ==
            IF pkg.kind = "archive" THEN archive(extract_tarball(st, pkg))
            ELSE IF pkg.kind = "dir"
            THEN finished_installing(install_from_dir(st, pkg.path, dry_run), pkg.path)
            ELSE Raise(st, "InstallError")
    IN  logged(Log(st0, "Request to install '%s'", <<pkg.path>>, <<>>, 0, 0))

(***************************************************************************)
(* uninstall_extension and its helpers, lines 250-367                      *)
(***************************************************************************)

\* delete_file with the test of line 341 left out: the file is removed in a
\* dry run too
delete_file_undry(st, filename, report_errors, dry_run) ==
    LET logged(st1) ==
            IF filename \in DOMAIN st1.files
            THEN [st1 EXCEPT !.files = Restrict(st1.files, (DOMAIN st1.files) \ {filename}),
                             !.ret = 1]
            ELSE IF report_errors
            THEN [Log(st1, "Delete failed: %s", <<filename>>, <<>>, 0, 4) EXCEPT !.ret = 0]
            ELSE [st1 EXCEPT !.ret = 0]
    IN  logged(Log([st EXCEPT !.deletes = Append(@, filename)],
                   "Deleting file %s", <<filename>>, <<>>, 0, 2))

\* delete_file without the except clause of line 344: the OSError of
\* os.remove leaves the function
delete_file_raising(st, filename, report_errors, dry_run) ==
    LET logged(st1) ==
            IF dry_run THEN [st1 EXCEPT !.ret = 0]
            ELSE IF filename \in DOMAIN st1.files
            THEN [st1 EXCEPT !.files = Restrict(st1.files, (DOMAIN st1.files) \ {filename}),
                             !.ret = 1]
            ELSE Raise([st1 EXCEPT !.ret = 0], "OSError")
    IN  logged(Log([st EXCEPT !.deletes = Append(@, filename)],
                   "Deleting file %s", <<filename>>, <<>>, 0, 2))

\* ExtensionEngine.delete_file(filename, report_errors): ret is what it returns
delete_file(st, filename, report_errors, dry_run) ==
    LET logged(st1) ==
            IF dry_run THEN [st1 EXCEPT !.ret = 0]
            ELSE IF filename \in DOMAIN st1.files
            THEN [st1 EXCEPT !.files = Restrict(st1.files, (DOMAIN st1.files) \ {filename}),
                             !.ret = 1]
            ELSE IF report_errors
            THEN [Log(st1, "Delete failed: %s", <<filename>>, <<>>, 0, 4) EXCEPT !.ret = 0]
            ELSE [st1 EXCEPT !.ret = 0]
    IN  logged(Log([st EXCEPT !.deletes = Append(@, filename)],
                   "Deleting file %s", <<filename>>, <<>>, 0, 2))

\* ExtensionEngine.delete_directory(directory), report_errors left at True
delete_directory(st, directory, dry_run) ==
    LET logged(st1) ==
            IF dry_run THEN st1
            ELSE [st1 EXCEPT !.files = rmtree_files(st1, directory),
                             !.dirs = rmtree_dirs(st1, directory)]
    IN  IF directory \notin st.dirs
        THEN Log(st, "Delete failed on directory '%s': %s", <<directory>>, <<>>, 0, 2)
        ELSE IF listdir_nonempty(st, directory)
        THEN Log(st, "Directory '%s' not empty", <<directory>>, <<>>, 0, 2)
        ELSE logged(Log(st, "Deleting directory %s", <<directory>>, <<>>, 0, 2))

\* N += self.delete_file(...); rets keeps what the calls returned
counted(st) == [st EXCEPT !.N = @ + st.ret, !.rets = Append(@, st.ret)]

\* One pass of the loop over source_tuple[1], lines 309-317
uninstall_file(st, root_type, install_file, dry_run) ==
    LET dst_file == _strip_leading_dir(install_file)
        destination_path == abspath(join(root_dict[root_type], dst_file))
        \* lines 313-317
        deleted(st1) ==
            IF endswith(destination_path, dot_py)
            THEN counted(delete_file(
                     counted(delete_file(st1, replace(destination_path, dot_py, dot_pyc),
                                         FALSE, dry_run)),
                     replace(destination_path, dot_py, dot_pyo), FALSE, dry_run))
            ELSE st1
    IN  IF dst_file = None THEN Raise(st, "AttributeError")
        ELSE deleted(counted(delete_file(st, destination_path, TRUE, dry_run)))

RECURSIVE uninstall_file_list(_, _, _, _)
uninstall_file_list(st, root_type, file_list, dry_run) ==
    IF file_list = <<>> \/ st.outcome # "run" THEN st
    ELSE uninstall_file_list(uninstall_file(st, root_type, Head(file_list), dry_run),
                             root_type, Tail(file_list), dry_run)

\* Lines 321-325: the directory of a skin file group
uninstall_skin_dir(st, root_type, source_tuple, dry_run) ==
    IF st.outcome # "run" \/ root_type # "SKIN_ROOT" THEN st
    ELSE LET dst_dir == _strip_leading_dir(source_tuple.prefix) IN
         IF dst_dir = None THEN Raise(st, "AttributeError")
         ELSE delete_directory(st, abspath(join(root_dict[root_type], dst_dir)), dry_run)

\* The loop over installer['files'], lines 298-328
RECURSIVE uninstall_source_tuples(_, _, _)
uninstall_source_tuples(st, source_tuples, dry_run) ==
    IF source_tuples = <<>> \/ st.outcome # "run" THEN st
    ELSE LET source_tuple == Head(source_tuples)
             c == classify(source_tuple.prefix, target_dirs_keys)
         IN  IF c.kind = "exit"
             THEN Exit(st, "Unknown destination for file %s", source_tuple, <<>>)
             ELSE IF c.kind = "KeyError" THEN Raise(st, "KeyError")
             ELSE uninstall_source_tuples(
                      uninstall_skin_dir(
                          uninstall_file_list(st, c.root_type, source_tuple.list, dry_run),
                          c.root_type, source_tuple, dry_run),
                      Tail(source_tuples), dry_run)

\* ExtensionEngine.uninstall_files(installer)
uninstall_files(st, installer, dry_run) ==
    LET removed(st1) ==
            IF st1.outcome # "run" THEN st1
            ELSE Log(st1, "Removed %d files", <<>>, <<>>, st1.N, 2)
    IN  removed(uninstall_source_tuples(
                    Log([st EXCEPT !.N = 0], "Removing files.", <<>>, <<>>, 0, 2),
                    installer.files, dry_run))

\* `x not in installer[service_group]`: membership in a list, substring of a string
declared(x, value) ==
    IF value.kind = "list" THEN x \in Range(value.items) ELSE contains(value.items[1], x)

\* filter(lambda x : x not in installer[service_group], live): a list of the
\* kept elements for a list, a string of the kept characters for a string
filter_undeclared(live, value) ==
    IF live.kind = "list"
    THEN list(SelectSeq(live.items, LAMBDA x : ~declared(x, value)))
    ELSE str(SelectSeq(live.items[1], LAMBDA c : ~declared(<<c>>, value)))

\* The loop over all_service_groups, lines 270-276
RECURSIVE remove_services(_, _, _, _)
remove_services(st, installer, service_groups, dry_run) ==
    LET service_group == Head(service_groups)
        key == <<"Engine", "Services", service_group>>
        \* lines 274-276
        assign(new_list) ==
            IF dry_run THEN st
            ELSE [st EXCEPT !.config.scal[key] = new_list, !.save_config = TRUE]
    IN  IF service_groups = <<>> \/ st.outcome # "run" THEN st
        ELSE IF service_group \notin DOMAIN installer.groups
        THEN remove_services(st, installer, Tail(service_groups), dry_run)
        ELSE IF key \notin DOMAIN st.config.scal THEN Raise(st, "KeyError")
        ELSE remove_services(
                 assign(filter_undeclared(st.config.scal[key],
                                          installer.groups[service_group])),
                 installer, Tail(service_groups), dry_run)

\* remove_sections with the test of line 279 reading `and self.dry_run`: the
\* sections of the installer are left in the tree
remove_sections_kept(st, installer, extension_installer_dir, dry_run) ==
    LET save(st2) == IF st2.save_config THEN save_with_backup(st2) ELSE st2
        pruned(st1) ==
            save(IF dry_run THEN st1
                 ELSE [st1 EXCEPT !.files = rmtree_files(st1, extension_installer_dir),
                                  !.dirs = rmtree_dirs(st1, extension_installer_dir)])
    IN  IF st.outcome # "run" THEN st ELSE pruned(st)

\* Lines 278-288
remove_sections(st, installer, extension_installer_dir, dry_run) ==
    LET \* lines 287-288
        save(st2) == IF st2.save_config THEN save_with_backup(st2) ELSE st2
        \* lines 283-285
        pruned(st1) ==
            save(IF dry_run THEN st1
                 ELSE [st1 EXCEPT !.files = rmtree_files(st1, extension_installer_dir),
                                  !.dirs = rmtree_dirs(st1, extension_installer_dir)])
    IN  IF st.outcome # "run" THEN st
        ELSE pruned(IF installer.hasconfig /\ ~dry_run
                    THEN [st EXCEPT !.config = remove_and_prune(st.config, installer.config),
                                    !.save_config = TRUE]
                    ELSE st)

\* uninstall_extension with `pass` in the except clause of line 261: without
\* an installer there is nothing to undo but the installer subdirectory
uninstall_extension_anyway(st0, extension_name, dry_run) ==
    LET extension_installer_dir == join(root_dict.EXT_ROOT, extension_name)
        finished(st) ==
            IF st.outcome # "run" THEN st
            ELSE [Log(st, "Finished removing extension '%s'", <<extension_name>>,
                      <<>>, 0, 0) EXCEPT !.outcome = "ok"]
        uninstall(st, installer) ==
            finished(
              remove_sections(
                remove_services(
                  uninstall_files([st EXCEPT !.installer = installer], installer, dry_run),
                  installer, all_service_groups, dry_run),
                installer, extension_installer_dir, dry_run))
        found(st, got) ==
            IF ~got.ok
            THEN finished(IF dry_run THEN st
                          ELSE [st EXCEPT !.files = rmtree_files(st, extension_installer_dir),
                                          !.dirs = rmtree_dirs(st, extension_installer_dir)])
            ELSE uninstall(st, got.installer)
        logged(st) == found(st, get_extension_installer(st, extension_installer_dir))
    IN  logged(Log(st0, "Request to remove extension '%s'", <<extension_name>>, <<>>, 0, 0))

\* ExtensionEngine.uninstall_extension(extension_name)
uninstall_extension(st0, extension_name, dry_run) ==
    LET extension_installer_dir == join(root_dict.EXT_ROOT, extension_name)
        \* line 290
        finished(st) ==
            IF st.outcome # "run" THEN st
            ELSE [Log(st, "Finished removing extension '%s'", <<extension_name>>,
                      <<>>, 0, 0) EXCEPT !.outcome = "ok"]
        \* lines 265-288
        uninstall(st, installer) ==
            finished(
              remove_sections(
                remove_services(
                  uninstall_files([st EXCEPT !.installer = installer], installer, dry_run),
                  installer, all_service_groups, dry_run),
                installer, extension_installer_dir, dry_run))
        \* lines 258-262
        found(st, got) ==
            IF ~got.ok
            THEN Exit(st, "Unable to find extension %s", NoEntry, extension_name)
            ELSE uninstall(st, got.installer)
        logged(st) == found(st, get_extension_installer(st, extension_installer_dir))
    IN  logged(Log(st0, "Request to remove extension '%s'", <<extension_name>>, <<>>, 0, 0))

(***************************************************************************)
(* The states the engine is constructed in                                 *)
(***************************************************************************)

\* A file that was not installed by an extension
user_file == [data |-> user, installer |-> NoInstaller]

\* The comment of a section of the configuration file as the user wrote it
user_comment == <<[fmt |-> "# user", arg |-> <<>>]>>

\* A path and the directories above it
ancestors(p) == {abspath(SubSeq(p, 1, i)) : i \in {j \in 1..Len(p) : j = Len(p) \/ p[j + 1] = "/"}}

stock_dirs ==
    ancestors(sl(root_dict.BIN_ROOT, user)) \cup ancestors(root_dict.SKIN_ROOT)
        \cup ancestors(tmpdir) \cup {<<"/">>}

\* The configuration of a new installation of the host application
stock_config ==
    [sect |-> {<<"StdReport">>, <<"Databases">>, <<"Databases", "archive_sqlite">>,
               <<"Engine">>, <<"Engine", "Services">>},
     scal |-> (<<"StdReport", "HTML_ROOT">> :> str(public_html))
              @@ (<<"Databases", "archive_sqlite", "root">> :> str(<<"/","o","p","t">>))
              @@ (<<"Databases", "archive_sqlite", "database_name">> :>
                     str(sl(<<"a","r","c","h","i","v","e">>, <<"w",".","s","d","b">>)))
              @@ (<<"Engine", "Services", "process_services">> :> list(<<svc_std>>))
              @@ (<<"Engine", "Services", "report_services">> :> str(svc_rep)),
     comments |-> [k \in {"StdReport", "Databases", "Engine"} |-> user_comment]]

\* A configuration the user has worked on: a ProcessMonitor section of the
\* user's own, services registered by hand, and a MySQL archive whose
\* password is not in the file
used_config ==
    [sect |-> stock_config.sect \cup {<<"ProcessMonitor">>, <<"Databases", "archive_mysql">>},
     scal |-> (<<"ProcessMonitor", "process">> :> str(other))
              @@ (<<"Databases", "archive_mysql", "host">> :> str(<<"d","b","h","o","s","t">>))
              @@ (<<"Databases", "archive_mysql", "user">> :> str(<<"d","b","u","s","e","r">>))
              @@ (<<"Engine", "Services", "process_services">> :> list(<<svc_std, svc_pmon>>))
              @@ (<<"Engine", "Services", "report_services">> :> list(<<svc_rep, svc_pm>>))
              @@ stock_config.scal,
     comments |-> [k \in {"StdReport", "Databases", "Engine", "ProcessMonitor"} |->
                      user_comment]]

\* A configuration without databases and without the report services
bare_config ==
    [sect |-> {<<"StdReport">>, <<"Engine">>, <<"Engine", "Services">>},
     scal |-> (<<"StdReport", "HTML_ROOT">> :> str(public_html))
              @@ (<<"Engine", "Services", "process_services">> :> list(<<svc_std>>)),
     comments |-> [k \in {"StdReport", "Engine"} |-> user_comment]]

NoBackup == [sect |-> {}, scal |-> <<>>, comments |-> <<>>]

\* A system with the files f next to the extension directories
System(f, d, c) ==
    [files |-> f @@ SourceTree, dirs |-> d, config |-> c,
     disk |-> [conf |-> c, backup |-> NoBackup, backups |-> FALSE]]

InitStates ==
    { System(sl(sl(root_dict.BIN_ROOT, user), extensions_py) :> user_file,
             stock_dirs, stock_config),
      System((sl(sl(root_dict.BIN_ROOT, user), extensions_py) :> user_file)
                 @@ (sl(sl(root_dict.BIN_ROOT, user), pmon_pyc) :> user_file),
             stock_dirs \cup {root_dict.EXT_ROOT}, used_config),
      System(sl(sl(root_dict.BIN_ROOT, user), extensions_py) :> user_file,
             stock_dirs, bare_config),
      \* the extension old is installed; since then gone.py was deleted by
      \* hand and skins/old/sub was replaced by a directory.  The cache also
      \* has a directory ghost without an install.py.
      System((sl(sl(root_dict.BIN_ROOT, user), extensions_py) :> user_file)
                 @@ (sl(sl(root_dict.EXT_ROOT, old), install_py) :>
                        [data |-> old, installer |-> old_installer])
                 @@ (sl(sl(root_dict.BIN_ROOT, user), old_py) :> [data |-> old, installer |-> NoInstaller])
                 @@ (sl(sl(root_dict.BIN_ROOT, user), old_pyc) :> [data |-> old, installer |-> NoInstaller])
                 @@ (sl(sl(root_dict.SKIN_ROOT, old), index_html) :>
                        [data |-> old, installer |-> NoInstaller]),
             stock_dirs \cup {root_dict.EXT_ROOT, sl(root_dict.EXT_ROOT, old),
                              sl(root_dict.EXT_ROOT, ghost),
                              sl(root_dict.SKIN_ROOT, old), sl(sl(root_dict.SKIN_ROOT, old), sub)},
             stock_config) }

(***************************************************************************)
(* The state machine: one action per operation of the engine.  last holds  *)
(* the operation that ran last: its arguments, the system state it started *)
(* in (pre) and what the run did (run).                                    *)
(***************************************************************************)

\* The number of operations a behaviour runs
MaxOps == 2

NoPackage == [kind |-> "none"]

\* What install_extension finds at a path where nothing is
MissingPackage ==
    [kind |-> "missing", path |-> sl(ext_dir, ghost), installer |-> NoInstaller,
     members |-> <<>>, memberdirs |-> {}, readable |-> FALSE]

Sys == [files |-> files, dirs |-> dirs, config |-> config, disk |-> disk]

\* What a run did, apart from the system state it left
Trace(st) ==
    [outcome |-> st.outcome, exitmsg |-> st.exitmsg, log |-> st.log, N |-> st.N,
     copies |-> st.copies, deletes |-> st.deletes, saved |-> st.saved,
     save_config |-> st.save_config, entered |-> st.entered,
     extension_dir |-> st.extension_dir, installer |-> st.installer, cfg |-> st.cfg,
     cleanup |-> st.cleanup, rets |-> st.rets, member_names |-> st.member_names]

Init ==
    /\ \E s \in InitStates :
          /\ files = s.files
          /\ dirs = s.dirs
          /\ config = s.config
          /\ disk = s.disk
          /\ last = [op |-> "none", dry_run |-> FALSE, pkg |-> NoPackage, name |-> <<>>,
                     pre |-> s, run |-> Trace(Begin(s))]
    /\ nops = 0

\* The operation op ran from the current state and ended in st
Ran(op, pkg, name, dry_run, st) ==
    /\ files' = st.files
    /\ dirs' = st.dirs
    /\ config' = st.config
    /\ disk' = st.disk
    /\ last' = [op |-> op, dry_run |-> dry_run, pkg |-> pkg, name |-> name,
                pre |-> Sys, run |-> Trace(st)]
    /\ nops' = nops + 1

\* install_extension(extension_path) of an engine constructed with dry_run
InstallExtension(packages) ==
    /\ nops < MaxOps
    /\ \E pkg \in packages, dry_run \in BOOLEAN :
          Ran("install", pkg, <<>>, dry_run, install_extension(Begin(Sys), pkg, dry_run))

\* uninstall_extension(extension_name) of an engine constructed with dry_run
UninstallExtension(names) ==
    /\ nops < MaxOps
    /\ \E extension_name \in names, dry_run \in BOOLEAN :
          Ran("uninstall", NoPackage, extension_name, dry_run,
              uninstall_extension(Begin(Sys), extension_name, dry_run))

\* enumerate_extensions()
EnumerateExtensions ==
    /\ nops < MaxOps
    /\ \E dry_run \in BOOLEAN, exts \in listings(listdir(Sys, root_dict.EXT_ROOT)) :
          Ran("enumerate", NoPackage, <<>>, dry_run, enumerate_extensions(Begin(Sys), exts))

InstallDirectory == InstallExtension(DirPackages \cup {MissingPackage})

Uninstall == UninstallExtension(ExtensionNames)

Next == InstallDirectory \/ Uninstall \/ EnumerateExtensions

Spec == Init /\ [][Next]_vars

\* The same engine, pointed at archives
InstallArchive == InstallExtension(ArchivePackages)

NextArchive == InstallArchive \/ Uninstall

SpecArchive == Init /\ [][NextArchive]_vars

\* The same engine, installing the extensions of the prefix classification
InstallPrefixed == InstallExtension(PrefixPackages)

UninstallPrefixed == UninstallExtension({<<"p">>})

NextPrefix == InstallPrefixed \/ UninstallPrefixed

SpecPrefix == Init /\ [][NextPrefix]_vars

(***************************************************************************)
(* What the operation that ran last was, and how two configuration trees   *)
(* and two file systems compare                                            *)
(***************************************************************************)

\* An install that was not a dry run and returned
Installed == last.op = "install" /\ ~last.dry_run /\ last.run.outcome = "ok"

\* The list of a service group in the tree c, and the identifiers the
\* installer declares for it
group_key(service_group) == <<"Engine", "Services", service_group>>

registered(c, service_group) == Range(option_as_list(c.scal[group_key(service_group)]))

declared_ids(installer, service_group) ==
    Range(option_as_list(installer.groups[service_group]))

\* The trees c and d have the same sections, keys, values and comments; a
\* list of one string and that string count as the same value
SameTree(c, d) ==
    /\ c.sect = d.sect
    /\ DOMAIN c.scal = DOMAIN d.scal
    /\ \A p \in DOMAIN c.scal : option_as_list(c.scal[p]) = option_as_list(d.scal[p])
    /\ c.comments = d.comments

\* A path in a target root that is not in the installer cache
InRoots(p) ==
    /\ Under(p, root_dict.BIN_ROOT) \/ Under(p, root_dict.SKIN_ROOT)
    /\ ~Under(p, root_dict.EXT_ROOT)

\* The target roots hold the same files and directories in (f, d) as in s
SameRoots(f, d, s) ==
    /\ {p \in DOMAIN f : InRoots(p)} = {p \in DOMAIN s.files : InRoots(p)}
    /\ \A p \in DOMAIN f : InRoots(p) => f[p] = s.files[p]
    /\ {p \in d : InRoots(p)} = {p \in s.dirs : InRoots(p)}

\* The path of a file below a root: its components after the first one
stripped_path(root, install_file) ==
    root \o joincomps(Tail(split_slash(install_file)))

(***************************************************************************)
(* C1                                                                      *)
(***************************************************************************)

\* C1: with dry_run set, an install from a directory and an uninstall leave
\* the files, the directories, the installer cache, the configuration file
\* and its backup, and the live configuration tree exactly as they were.
DryRunMutatesNothing ==
    (last.op \in {"install", "uninstall"} /\ last.dry_run /\ last.pkg.kind # "archive")
        => /\ files = last.pre.files
           /\ dirs = last.pre.dirs
           /\ disk = last.pre.disk
           /\ config = last.pre.config
           /\ ~last.run.saved
           /\ last.run.copies = <<>>

\* A dry-run uninstall of an installed extension with a configuration
\* fragment, which went through its deletions and returned
DryRunUninstallRan ==
    /\ last.op = "uninstall" /\ last.dry_run /\ last.run.outcome = "ok"
    /\ last.run.installer.hasconfig
    /\ last.run.deletes # <<>>
    /\ DOMAIN last.run.installer.groups # {}

(***************************************************************************)
(* C2                                                                      *)
(***************************************************************************)

\* The state s holds none of what the install that ran last brought: no file
\* at a destination it copied to, no section or key of its fragment, none of
\* the services it declares
Fresh(s, installer, copies) ==
    /\ \A i \in DOMAIN copies : copies[i].dst \notin DOMAIN s.files
    /\ installer.hasconfig =>
          \A p \in installer.config.sect \cup DOMAIN installer.config.scal :
              ~haskey(s.config, p)
    /\ \A g \in DOMAIN installer.groups :
          declared_ids(installer, g) \cap registered(s.config, g) = {}

\* An install has just returned, and the step taken is the uninstall of the
\* extension it installed
RoundTrip ==
    /\ Installed
    /\ last'.op = "uninstall" /\ ~last'.dry_run
    /\ last'.name = last.pkg.installer.name

\* C2: an uninstall that immediately follows the install of an extension into
\* a state that held none of its files, keys and services removes every file
\* the install copied and leaves the live configuration tree and the target
\* roots as they were before the install.
RoundTripRestores ==
    [][(RoundTrip /\ Fresh(last.pre, last.pkg.installer, last.run.copies))
          => /\ last'.run.outcome = "ok"
             /\ \A i \in DOMAIN last.run.copies : last.run.copies[i].dst \notin DOMAIN files'
             /\ SameTree(config', last.pre.config)
             /\ SameRoots(files', dirs', last.pre)]_vars

(***************************************************************************)
(* C3                                                                      *)
(***************************************************************************)

\* C3: the merge of a non-dry-run install leaves every section of the live
\* tree in place, every key of it at its value and every comment of a
\* top-level section as it was, and a key the tree gains has the value the
\* fragment gives it.  (The lists of the service groups are not the merge's:
\* the registration of services extends them.)
MergeNeverOverwrites ==
    (last.op = "install" /\ ~last.dry_run)
        => /\ last.pre.config.sect \subseteq config.sect
           /\ \A p \in DOMAIN last.pre.config.scal :
                 /\ p \in DOMAIN config.scal
                 /\ (\A i \in DOMAIN all_service_groups : p # group_key(all_service_groups[i]))
                       => config.scal[p] = last.pre.config.scal[p]
           /\ \A k \in DOMAIN last.pre.config.comments :
                 k \in DOMAIN config.comments
                 /\ config.comments[k] = last.pre.config.comments[k]
           /\ \A p \in (DOMAIN config.scal) \ DOMAIN last.pre.config.scal :
                 /\ p \in DOMAIN last.run.cfg.scal
                 /\ config.scal[p] = last.run.cfg.scal[p]

\* An install merged a fragment one of whose keys the live tree already had,
\* at another value, and whose other keys were new
MergedOverExistingKey ==
    /\ Installed /\ last.pkg.installer.hasconfig /\ last.run.save_config
    /\ \E p \in DOMAIN last.run.cfg.scal :
          p \in DOMAIN last.pre.config.scal /\ last.pre.config.scal[p] # last.run.cfg.scal[p]
    /\ \E p \in DOMAIN last.run.cfg.scal : p \notin DOMAIN last.pre.config.scal

(***************************************************************************)
(* C4                                                                      *)
(***************************************************************************)

\* C4: a service that was registered in a group before the install ran is
\* still registered in it after the install and the uninstall that follows.
UninstallKeepsEarlierServices ==
    [][(RoundTrip /\ last'.run.outcome = "ok")
          => \A g \in DOMAIN last.pkg.installer.groups :
                registered(last.pre.config, g) \subseteq registered(config', g)]_vars

(***************************************************************************)
(* C5                                                                      *)
(***************************************************************************)

\* Every service the installer declares is registered in the tree c
AllRegistered(c, installer) ==
    \A g \in DOMAIN installer.groups : declared_ids(installer, g) \subseteq registered(c, g)

\* C5: an install leaves the list of a group as it was when every declared
\* service is in it, and otherwise appends to it, once each, the declared
\* services it lacks; with nothing to merge and nothing to append the
\* configuration is not marked changed and is not saved.
GroupAddIdempotent ==
    Installed
        => /\ \A g \in DOMAIN last.pkg.installer.groups :
                LET before == option_as_list(last.pre.config.scal[group_key(g)])
                    after == option_as_list(config.scal[group_key(g)])
                    added == (Len(before) + 1)..Len(after)
                IN  /\ Len(before) <= Len(after)
                    /\ SubSeq(after, 1, Len(before)) = before
                    /\ \A i \in added :
                          /\ after[i] \in declared_ids(last.pkg.installer, g)
                          /\ after[i] \notin Range(before)
                          /\ \A j \in added : after[j] = after[i] => j = i
                    /\ declared_ids(last.pkg.installer, g) \subseteq Range(after)
                    /\ declared_ids(last.pkg.installer, g) \subseteq Range(before)
                          => config.scal[group_key(g)] = last.pre.config.scal[group_key(g)]
           /\ (~last.pkg.installer.hasconfig /\ AllRegistered(last.pre.config, last.pkg.installer))
                 => ~last.run.save_config /\ ~last.run.saved /\ disk = last.pre.disk

\* An install of an extension without a fragment whose services were all
\* registered already
InstalledRegisteredServices ==
    /\ Installed /\ ~last.pkg.installer.hasconfig
    /\ DOMAIN last.pkg.installer.groups # {}
    /\ AllRegistered(last.pre.config, last.pkg.installer)

(***************************************************************************)
(* C6, C7, C8: installs from archives                                      *)
(***************************************************************************)

\* An install from an archive that could be read and has members
InstalledArchive ==
    /\ last.op = "install" /\ last.pkg.kind = "archive"
    /\ last.pkg.readable /\ last.pkg.members # <<>>

\* The top-level directory of a member of an archive
top_dir(member) == split_slash(member)[1]

\* C6: when every member of the archive lies under the top-level directory
\* pmon, install_from_dir is entered with the directory <tmpdir>/pmon.
CommonRootIsWholeComponent ==
    (InstalledArchive /\ \A i \in DOMAIN last.pkg.members : top_dir(last.pkg.members[i]) = pmon)
        => /\ last.run.entered
           /\ abspath(last.run.extension_dir) = sl(tmpdir, pmon)

\* C7: when the members of the archive do not share one top-level directory,
\* the install ends with InstallError and install_from_dir is not entered.
NoCommonRootIsInstallError ==
    (InstalledArchive /\ \E i, j \in DOMAIN last.pkg.members :
                            top_dir(last.pkg.members[i]) # top_dir(last.pkg.members[j]))
        => /\ last.run.outcome = "InstallError"
           /\ ~last.run.entered

\* C8: however an install from an archive ends, the cleanup did not raise,
\* and nothing the extraction wrote below the scratch directory is left.
ScratchCleanedUp ==
    (last.op = "install" /\ last.pkg.kind = "archive")
        => /\ last.run.cleanup # "raised"
           /\ \A p \in DOMAIN files : Under(p, tmpdir) => p \in DOMAIN last.pre.files
           /\ \A d \in dirs : Under(d, tmpdir) => d \in last.pre.dirs

(***************************************************************************)
(* C9                                                                      *)
(***************************************************************************)

\* The prefix starts with the path component bin or skins
known_prefix(prefix) == top_dir(prefix) \in {bin, skins}

\* The root a known prefix maps to
known_root(prefix) ==
    IF top_dir(prefix) = bin THEN root_dict.BIN_ROOT ELSE root_dict.SKIN_ROOT

\* The paths the entry source_tuple names below root
entry_destinations(root, source_tuple) ==
    {stripped_path(root, source_tuple.list[j]) : j \in DOMAIN source_tuple.list}

\* C9: the first entry of the manifest whose prefix does not start with the
\* component bin or skins ends the install or the uninstall with the
\* "Unknown destination" message naming it, and none of its files is copied
\* or deleted; the files of an entry under bin go to BIN_ROOT, those of an
\* entry under skins to SKIN_ROOT.
PrefixClassification ==
    (last.op \in {"install", "uninstall"} /\ last.run.installer # NoInstaller)
        => \A i \in DOMAIN last.run.installer.files :
              LET source_tuple == last.run.installer.files[i] IN
              (\A h \in 1..(i - 1) : known_prefix(last.run.installer.files[h].prefix))
                 => IF known_prefix(source_tuple.prefix)
                    THEN \A k \in DOMAIN last.run.copies :
                            (\E j \in DOMAIN source_tuple.list :
                                last.run.copies[k].src = join(last.pkg.path, source_tuple.list[j]))
                               => last.run.copies[k].dst \in
                                     entry_destinations(known_root(source_tuple.prefix),
                                                        source_tuple)
                    ELSE /\ last.run.outcome = "SystemExit"
                         /\ last.run.exitmsg.msg = "Unknown destination for file %s"
                         /\ last.run.exitmsg.entry = source_tuple
                         /\ last.run.copies = <<>>
                         /\ last.run.deletes = <<>>

(***************************************************************************)
(* C10                                                                     *)
(***************************************************************************)

\* The root a prefix that starts with "bin" or "skins" stands for
matched_root(prefix) ==
    IF startswith(prefix, bin) THEN root_dict.BIN_ROOT ELSE root_dict.SKIN_ROOT

\* The copy that the file j of the entry i of an installer asks for
planned_copy(pkg, i, j) ==
    [src |-> join(pkg.path, pkg.installer.files[i].list[j]),
     dst |-> stripped_path(matched_root(pkg.installer.files[i].prefix),
                      pkg.installer.files[i].list[j])]

\* The files an installer lists, entry by entry
RECURSIVE count_files(_)
count_files(source_tuples) ==
    IF source_tuples = <<>> THEN 0
    ELSE Len(Head(source_tuples).list) + count_files(Tail(source_tuples))

ScenarioC ==
    /\ Installed
    /\ last.pkg.installer.hasconfig /\ last.pkg.installer.config = newsec_config
    /\ ~haskey(last.pre.config, <<"NewSection">>)

\* C11: after the install of Scenario C the tree has the section NewSection
\* with key = val and a comment that names the extension, and every top-level
\* section the tree had keeps its comment as it was; after the uninstall that
\* follows, the tree has no NewSection again.
NewSectionAddedThenRemoved ==
    /\ [](ScenarioC
            => /\ <<"NewSection">> \in config.sect
               /\ <<"NewSection", "key">> \in DOMAIN config.scal
               /\ config.scal[<<"NewSection", "key">>] = str(val)
               /\ "NewSection" \in DOMAIN config.comments
               /\ \E i \in DOMAIN config.comments["NewSection"] :
                     config.comments["NewSection"][i].arg = last.pkg.installer.name
               /\ DOMAIN config.comments = (DOMAIN last.pre.config.comments) \cup {"NewSection"}
               /\ \A k \in DOMAIN last.pre.config.comments :
                     config.comments[k] = last.pre.config.comments[k])
    /\ [][(ScenarioC /\ RoundTrip)
            => /\ last'.run.outcome = "ok"
               /\ ~haskey(config', <<"NewSection">>)
               /\ ~haskey(config', <<"NewSection", "key">>)
               /\ "NewSection" \notin DOMAIN config'.comments
               /\ config'.comments = last.pre.config.comments]_vars

\* The extension of Scenario C was installed, which gave the tree the
\* commented section, and then uninstalled
UninstalledScenarioC ==
    /\ last.op = "uninstall" /\ ~last.dry_run /\ last.run.outcome = "ok"
    /\ last.name = newsec
    /\ last.run.installer.config = newsec_config
    /\ <<"NewSection", "key">> \in DOMAIN last.pre.config.scal
    /\ last.pre.config.comments["NewSection"] # <<>>
    /\ ~haskey(config, <<"NewSection">>)

(***************************************************************************)
(* C12                                                                     *)
(***************************************************************************)

\* The operation that ran last was an install or an uninstall that found its
\* installer
RanWithInstaller ==
    last.op \in {"install", "uninstall"} /\ last.run.installer # NoInstaller

\* The operation that ran last marks the configuration changed when it gets
\* that far: a non-dry-run install whose installer has a fragment or declares
\* a service the group lacks, a non-dry-run uninstall whose installer has a
\* fragment or a service group
MarksChanged ==
    /\ RanWithInstaller /\ ~last.dry_run
    /\ \/ last.run.installer.hasconfig
       \/ /\ last.op = "uninstall"
          /\ DOMAIN last.run.installer.groups # {}
       \/ /\ last.op = "install"
          /\ \E g \in DOMAIN last.run.installer.groups :
                /\ group_key(g) \in DOMAIN last.pre.config.scal
                /\ ~(declared_ids(last.run.installer, g) \subseteq registered(last.pre.config, g))

\* The configuration file and its backup are as they were before the operation
DiskUntouched == disk = last.pre.disk /\ ~last.run.saved

\* C12 (as amended): an install or uninstall writes the configuration back,
\* the file as it was becoming the backup, exactly when it returns after
\* having marked the configuration changed; a dry run never saves, an
\* installer that lists files only never saves, and an operation that returns
\* with the live tree changed has saved it.
SavedIffMarkedChanged ==
    (last.op \in {"install", "uninstall"} /\ last.pkg.kind # "archive")
        => /\ last.run.saved <=> (last.run.outcome = "ok" /\ MarksChanged)
           /\ last.run.saved <=> last.run.save_config /\ last.run.outcome = "ok"
           /\ last.run.saved => disk.conf = config /\ disk.backup = last.pre.disk.conf
           /\ ~last.run.saved => DiskUntouched
           /\ last.dry_run => DiskUntouched /\ config = last.pre.config
           /\ (RanWithInstaller /\ ~last.run.installer.hasconfig
                  /\ DOMAIN last.run.installer.groups = {}) => DiskUntouched
           /\ (last.run.outcome = "ok" /\ config # last.pre.config) => last.run.saved

\* An install returned that merged a fragment all of whose keys the tree
\* had already: the tree is as it was, and it was saved
SavedUnchangedTree ==
    /\ Installed /\ last.run.installer.hasconfig
    /\ config = last.pre.config
    /\ last.run.saved /\ disk.backup = last.pre.disk.conf

\* C12 as stated: the configuration is written back if and only if the live
\* tree was changed by the operation.
SavedIffTreeMutated ==
    (last.op \in {"install", "uninstall"} /\ last.pkg.kind # "archive")
        => /\ last.run.saved <=> config # last.pre.config
           /\ last.dry_run => ~last.run.saved

(***************************************************************************)
(* C13                                                                     *)
(***************************************************************************)

\* The log lines that announce an action or report a count
PlannedActionLines ==
    {"Copying from '%s' to '%s'", "Deleting file %s", "Deleting directory %s",
     "Adding section %s", "Added new service %s to %s", "Saving installer file to %s",
     "Copied %d files", "Removed %d files"}

planned_lines(log) == SelectSeq(log, LAMBDA line : line.msg \in PlannedActionLines)

\* The step taken runs, not as a dry run, the operation that has just run as
\* a dry run, on the same arguments and from the same state, and both return
DryThenReal ==
    /\ last.op \in {"install", "uninstall"} /\ last.dry_run /\ last.run.outcome = "ok"
    /\ last'.op = last.op /\ ~last'.dry_run /\ last'.run.outcome = "ok"
    /\ last'.pkg = last.pkg /\ last'.name = last.name
    /\ last'.pre = last.pre

\* C13: the dry run of an install or uninstall logs the same sequence of
\* planned-action lines, counts included, as the run that is not a dry run,
\* from the same state and on the same manifest.
DryRunLogsSamePlan ==
    [][DryThenReal => planned_lines(last'.run.log) = planned_lines(last.run.log)]_vars

(***************************************************************************)
(* C14                                                                     *)
(***************************************************************************)

\* An install, dry run or not, that got through the merge of a fragment
MergedFragment ==
    /\ last.op = "install" /\ last.run.outcome = "ok"
    /\ last.run.installer # NoInstaller /\ last.run.installer.hasconfig

\* C14: after install_from_dir the installer's config, every nested section
\* of it included, is what the install.py declared, in a dry run and in a
\* run that is none.
ManifestConfigUntouched ==
    MergedFragment => last.run.installer.config = last.pkg.installer.config

(***************************************************************************)
(* C15                                                                     *)
(***************************************************************************)

\* The fragment as it is before the databases are massaged: the working copy
\* with its HTML_ROOT values prepended (lines 166-170)
unmassaged(fragment, live) ==
    prepend_path(fragment, "HTML_ROOT", live.scal[<<"StdReport", "HTML_ROOT">>].items[1])

\* The databases of a fragment
fragment_databases(fragment) == {p \in fragment.sect : Len(p) = 2 /\ p[1] = "Databases"}

\* A lookup of lines 175-187 fails for the fragment on the live tree
MassagingFails(fragment, live) ==
    LET sqlitecfg == <<"Databases", "archive_sqlite">>
        mysqlcfg == <<"Databases", "archive_mysql">>
        lacks(c, sec, k) == Append(sec, k) \notin DOMAIN c.scal
    IN  \/ <<"Databases">> \notin live.sect
        \/ <<"Databases">> \notin fragment.sect
        \/ \E db \in fragment_databases(fragment) :
              \/ lacks(fragment, db, "driver")
              \/ /\ ~lacks(fragment, db, "driver")
                 /\ fragment.scal[Append(db, "driver")] = str(weedb_sqlite)
                 /\ truthy(live, sqlitecfg)
                 /\ \/ lacks(live, sqlitecfg, "database_name")
                    \/ lacks(live, sqlitecfg, "root")
                    \/ lacks(fragment, db, "database_name")
              \/ /\ ~lacks(fragment, db, "driver")
                 /\ fragment.scal[Append(db, "driver")] = str(weedb_mysql)
                 /\ truthy(live, mysqlcfg)
                 /\ \/ lacks(live, mysqlcfg, "host")
                    \/ lacks(live, mysqlcfg, "user")
                    \/ lacks(live, mysqlcfg, "password")

\* C15: when a lookup of the database massaging fails, the fragment that is
\* merged is the unmassaged one: no database of it has a connection parameter
\* copied in or its database_name rewritten.
FailedMassagingLeavesFragment ==
    (MergedFragment /\ MassagingFails(last.pkg.installer.config, last.pre.config))
        => last.run.cfg = unmassaged(last.pkg.installer.config, last.pre.config)

(***************************************************************************)
(* C16                                                                     *)
(***************************************************************************)

\* The path at which the file j of the entry i of an installer is installed
destination(installer, i, j) ==
    stripped_path(matched_root(installer.files[i].prefix), installer.files[i].list[j])

\* The files of the target roots that the operation that ran last removed
removed_files == {p \in DOMAIN last.pre.files : InRoots(p) /\ p \notin DOMAIN files}

NoManifest(s, extension_name) ==
    sl(sl(root_dict.EXT_ROOT, extension_name), install_py) \notin DOMAIN s.files

\* C17: the uninstall of an extension for which the cache has no installer
\* ends with the message "Unable to find extension" that names it, before
\* anything is done: no deletion is attempted, the files, the directories,
\* the live tree and its service lists are as they were, and nothing is saved.
UnknownExtensionExits ==
    (last.op = "uninstall" /\ NoManifest(last.pre, last.name))
        => /\ last.run.outcome = "SystemExit"
           /\ last.run.exitmsg.msg = "Unable to find extension %s"
           /\ last.run.exitmsg.name = last.name
           /\ last.run.deletes = <<>>
           /\ files = last.pre.files
           /\ dirs = last.pre.dirs
           /\ config = last.pre.config
           /\ DiskUntouched

\* A non-dry-run uninstall of a name whose cache directory exists and holds
\* no installer
UninstalledGhost ==
    /\ last.op = "uninstall" /\ ~last.dry_run
    /\ NoManifest(last.pre, last.name)
    /\ sl(root_dict.EXT_ROOT, last.name) \in last.pre.dirs
    /\ last.run.outcome = "SystemExit"

(***************************************************************************)
(* C18                                                                     *)
(***************************************************************************)

\* The list l without the elements that are among ids
without(l, ids) == SelectSeq(l, LAMBDA x : x \notin ids)

\* C18: after an uninstall that is no dry run, the list of every service
\* group the installer names is the list as it was before the uninstall
\* without the elements equal to an identifier the installer declares for the
\* group, declared as a list or as one identifier; the other elements are
\* kept, in their order.
DeregistrationIsListDifference ==
    (last.op = "uninstall" /\ ~last.dry_run /\ last.run.outcome = "ok")
        => \A g \in DOMAIN last.run.installer.groups :
              option_as_list(config.scal[group_key(g)]) =
                  without(option_as_list(last.pre.config.scal[group_key(g)]),
                          declared_ids(last.run.installer, g))

(***************************************************************************)
(* C19                                                                     *)
(***************************************************************************)

\* The cache holds the installer of the package under the extension's name
ManifestCached(pkg) ==
    LET installer_file == sl(sl(root_dict.EXT_ROOT, pkg.installer.name), install_py) IN
    /\ installer_file \in DOMAIN files
    /\ files[installer_file].installer = pkg.installer

\* C19: an install that is no dry run and does not return leaves either no
\* file of the extension in a target root and the live tree as it was, or
\* the extension's installer in the cache under its name.
AbortLeavesNoPartialLayout ==
    (last.op = "install" /\ ~last.dry_run /\ last.pkg.kind = "dir"
        /\ last.run.outcome # "ok")
        => \/ /\ last.run.copies = <<>>
              /\ \A p \in DOMAIN files : InRoots(p) => p \in DOMAIN last.pre.files
              /\ config = last.pre.config
           \/ ManifestCached(last.pkg)

(***************************************************************************)
(* C20                                                                     *)
(***************************************************************************)

\* An install has just returned, and the step taken installs the same
\* directory again, not as a dry run
Reinstall ==
    /\ Installed /\ last.pkg.kind = "dir"
    /\ last'.op = "install" /\ ~last'.dry_run
    /\ last'.pkg = last.pkg

\* C20: the second of two successive installs of the same directory returns
\* and leaves the live tree (keys, values, comments, service lists), the
\* files, the directories and the installer cache as the first left them.
ReinstallChangesNothing ==
    [][Reinstall
          => /\ last'.run.outcome = "ok"
             /\ config' = config
             /\ files' = files
             /\ dirs' = dirs]_vars

\* The second install of an extension with files, a fragment and a service:
\* it copied its files again onto the installed ones and found its installer
\* in the cache
InstalledTwice ==
    /\ Installed /\ last.pkg.kind = "dir"
    /\ last.run.installer.hasconfig /\ DOMAIN last.run.installer.groups # {}
    /\ last.run.copies # <<>>
    /\ \A i \in DOMAIN last.run.copies : last.run.copies[i].dst \in DOMAIN last.pre.files
    /\ ~NoManifest(last.pre, last.run.installer.name)
    /\ AllRegistered(last.pre.config, last.run.installer)
    /\ files = last.pre.files /\ config = last.pre.config

====
